---- MODULE Spec2Model ----
(***************************************************************************)
(* Model of jobs/transform_counts.py: the Spark job that reads a CSV       *)
(* export, infers its columns, normalises it to (counter_id, counter_name, *)
(* timestamp, count) rows, sums the counts per (day, counter_key) and      *)
(* overwrites <out_dir>/daily_counts.parquet.                              *)
(*                                                                         *)
(* One run of the script is a sequence of steps; pc is the position of the *)
(* script.  A table is a record [columns, rows]: columns is the header in  *)
(* file order, each row a sequence of cells aligned with the header.  The  *)
(* CSV is read without inferSchema, so every cell is a string or null.     *)
(***************************************************************************)
EXTENDS Integers, Sequences, FiniteSets

VARIABLES pc, df, ts, cnt, cid, name, aadt_bike, aadt_car, aadt_total,
          branch, count_col, note, norm, daily, parquet, err, runs

\* The Airflow DAG cph_bike_daily (dags/cph_bikes_daily.py): per DAG run the
\* state and the number of attempts of its two tasks; the files the tasks
\* read and write; the clock their file names are stamped with.
VARIABLES dag_state, dag_tries, source_exists, raw_files, processed, now

\* The raw file a running transform_data has chosen, and the path a task has
\* returned (its XCom).
VARIABLES latest_file, xcom

dagvars == <<dag_state, dag_tries, source_exists, raw_files, processed, now,
             latest_file, xcom>>

\* The HTTP ingest (dags/scripts/ingest_to_raw.py): where run() is, the
\* environment's SOURCE_URL, the bytes fetched, the encodings read_csv has
\* been called with, the text of df, and the exception that ended run().
VARIABLES in_pc, SOURCE_URL, content, tried, in_df, in_err

httpvars == <<in_pc, SOURCE_URL, content, tried, in_df, in_err>>

\* The enrichment script (scripts/process_real_data.py): where
\* process_real_copenhagen_data() is, the files of data/curated, df,
\* daily_df, and what the call returned or raised.
VARIABLES pr_pc, curated_dir, pr_df, daily_df, pr_ret

procvars == <<pr_pc, curated_dir, pr_df, daily_df, pr_ret>>

\* The dashboard (app/streamlit_app.py): where the render is, the candidate
\* files that exist and the columns of their tables, DATASET, the files the
\* render has read, the columns of df, the views rendered, and the exception
\* that ended the render.
VARIABLES dash_pc, data_exists, data_columns, DATASET, reads, df_columns,
          views, dash_err

dashvars == <<dash_pc, data_exists, data_columns, DATASET, reads, df_columns,
              views, dash_err>>

\* What a step of a run of the job leaves alone: the count of the runs, the
\* DAG, the HTTP ingest, the enrichment script and the dashboard.
others == <<runs, dagvars, httpvars, procvars, dashvars>>

vars == <<pc, df, ts, cnt, cid, name, aadt_bike, aadt_car, aadt_total,
          branch, count_col, note, norm, daily, parquet, err, others>>

\* Longest input table (data rows) the model reads.
MaxRows == 3

\* Most runs of the job on one output directory, one after the other.
MaxRuns == 2

\* Longest file (data rows) the enrichment script reads.
MaxProcRows == 1

\* DAG runs that are active together, the last tick of the clock, and the
\* ticks of the clock that make a calendar day.
MaxDagRuns == 2
MaxClock == 2
TicksPerDay == 2

\* Python's None (what pick returns when nothing matches) and Spark's null.
None == "None"
NULL == "<null>"

-----------------------------------------------------------------------------
(* Values: what the conversions of the job do on the cells of the model.   *)

\* str.lower() on the header names of the model's inputs.
Lower(c) ==
  CASE c = "Counter_ID" -> "counter_id"
    [] c = "Name"       -> "name"
    [] c = "DateTime"   -> "datetime"
    [] c = "Count"      -> "count"
    [] c = "AADT_Bike"  -> "aadt_bike"
    [] OTHER            -> c

\* A timestamp value: calendar date and time of day; null has neither.
NullTs == [date |-> NULL, time |-> NULL]

\* to_timestamp(col) without a format, and the implicit string-to-timestamp
\* cast of date_trunc: a date alone is midnight, anything unparsable is null.
to_timestamp(s) ==
  CASE s = "2024-01-01"          -> [date |-> "2024-01-01", time |-> "00:00:00"]
    [] s = "2024-01-01 00:00:00" -> [date |-> "2024-01-01", time |-> "00:00:00"]
    [] s = "2024-01-01 08:30:00" -> [date |-> "2024-01-01", time |-> "08:30:00"]
    [] s = "2024-01-01 23:59:59" -> [date |-> "2024-01-01", time |-> "23:59:59"]
    [] s = "2024-01-02"          -> [date |-> "2024-01-02", time |-> "00:00:00"]
    [] s = "2024-01-02 17:45:00" -> [date |-> "2024-01-02", time |-> "17:45:00"]
    [] OTHER                     -> NullTs

\* date_trunc("day", t): the time of day is cut off; null stays null.
date_trunc(t) ==
  IF t = NullTs THEN NullTs ELSE [date |-> t.date, time |-> "00:00:00"]

\* col.cast("int") on a string cell: [null, val].  Digits give the number, a
\* decimal fraction is cut off, and text, null or a number that does not fit
\* 32 bits give null.
NullInt == [null |-> TRUE, val |-> 0]
IntOf(n) == [null |-> FALSE, val |-> n]
cast_int(s) ==
  CASE s = "10"          -> IntOf(10)
    [] s = "15"          -> IntOf(15)
    [] s = "7"           -> IntOf(7)
    [] s = "3"           -> IntOf(3)
    [] s = "3.7"         -> IntOf(3)
    [] s = "-4"          -> IntOf(0 - 4)
    [] s = "120"         -> IntOf(120)
    [] s = "500"         -> IntOf(500)
    [] s = "900"         -> IntOf(900)
    [] s = "1400"        -> IntOf(1400)
    [] OTHER             -> NullInt

\* coalesce(a, b) and coalesce(a, b, c): the first argument that is not null.
coalesce2(a, b) == IF a # NULL THEN a ELSE b
coalesce3(a, b, c) == IF a # NULL THEN a ELSE IF b # NULL THEN b ELSE c

-----------------------------------------------------------------------------
(* Column inference.                                                       *)

InList(x, s) == \E i \in DOMAIN s : s[i] = x

\* cols = [c.lower() for c in df.columns]
lower_cols(t) == [i \in DOMAIN t.columns |-> Lower(t.columns[i])]

\* A pick that walks the columns instead of the options: the first column
\* that is one of the options.
RECURSIVE pick_by_column(_, _)
pick_by_column(opts, cols) ==
  IF cols = <<>> THEN None
  ELSE IF InList(Head(cols), opts) THEN Head(cols)
  ELSE pick_by_column(opts, Tail(cols))

\* pick(*opts): the first option that is in cols, else None.
RECURSIVE pick(_, _)
pick(opts, cols) ==
  IF opts = <<>> THEN None
  ELSE IF InList(Head(opts), cols) THEN Head(opts)
  ELSE pick(Tail(opts), cols)

TsOpts == <<"timestamp", "datetime", "time", "date_time", "dato", "tidspunkt",
            "date", "created_at">>
CntOpts == <<"count", "counts", "value", "passes", "antal", "trafik", "bike",
             "cykler", "bicycle", "vehicle", "køretøj">>
CidOpts == <<"counter_id", "counterid", "sensor_id", "site_id", "id",
             "lokation_id", "location_id">>
NameOpts == <<"counter_name", "name", "sensor_name", "site_name", "lokation",
              "location", "sted", "place">>
AadtBikeOpts == <<"aadt_bike", "aadt_cykler", "bike_aadt", "cykler_aadt">>
AadtCarOpts == <<"aadt_car", "aadt_bil", "car_aadt", "bil_aadt">>
AadtTotalOpts == <<"aadt_total", "aadt_total", "total_aadt">>

\* Truth value of a pick result in an if: None and "" are false.
Truthy(x) == x # None /\ x # ""

\* A guard that lets every schema through.
schema_ok_unchecked(t, c) == TRUE

\* A guard that is content with one of the two columns.
schema_ok_either(t, c) == Truthy(t) \/ Truthy(c)

\* if not ts or not cnt: raise RuntimeError (the time-series guard).
schema_ok(t, c) == Truthy(t) /\ Truthy(c)

\* A branch condition that looks at the bike column alone.
is_aadt_bike_only(ab, ac, at) == Truthy(ab)

\* if aadt_bike or aadt_car or aadt_total (the branch condition).
is_aadt(ab, ac, at) == Truthy(ab) \/ Truthy(ac) \/ Truthy(at)

-----------------------------------------------------------------------------
(* Access to a table by column name.                                       *)

\* Spark resolves col(c) against the header without regard to case.
Resolvable(t, c) == \E i \in DOMAIN t.columns : Lower(t.columns[i]) = Lower(c)
ColIndex(t, c) == CHOOSE i \in DOMAIN t.columns : Lower(t.columns[i]) = Lower(c)

\* The cell of column c in a row (the steps check Resolvable before they
\* read a column that may be missing).
Cell(t, row, c) == IF Resolvable(t, c) THEN row[ColIndex(t, c)] ELSE NULL

\* df.select(c).dtypes[0][1]: spark.read.option("header", True).csv(src)
\* infers no schema, every column is a string column.
DType(t, c) == "string"

NumericTypes == {"int", "bigint", "double", "float"}
numeric_cols(t) == SelectSeq(t.columns, LAMBDA c : DType(t, c) \in NumericTypes)

\* A count column chosen with total ahead of car.
select_count_col_total_first(t, ab, ac, at) ==
  IF Truthy(ab) THEN ab
  ELSE IF Truthy(at) THEN at
  ELSE IF Truthy(ac) THEN ac
  ELSE None

\* The unified count column of the AADT branch (None: no count column).
select_count_col(t, ab, ac, at) ==
  IF Truthy(ab) THEN ab
  ELSE IF Truthy(ac) THEN ac
  ELSE IF Truthy(at) THEN at
  ELSE IF numeric_cols(t) # <<>> THEN Head(numeric_cols(t))
  ELSE None

\* print(f"Using numeric column as count: {numeric_cols[0]}"): the column
\* the note names (None: no note).
fallback_note(t, ab, ac, at) ==
  IF ~Truthy(ab) /\ ~Truthy(ac) /\ ~Truthy(at) /\ numeric_cols(t) # <<>>
  THEN Head(numeric_cols(t))
  ELSE None

\* The columns the AADT select names outright: the select raises an
\* AnalysisException unless the input has every one of them.
AadtSelectCols == {"vejnavn", "t_nr", "beskrivelse"}
aadt_select_resolves(t) == \A c \in AadtSelectCols : Resolvable(t, c)

-----------------------------------------------------------------------------
(* Normalisation to (counter_id, counter_name, timestamp, count).          *)

SyntheticTimestamp == "2024-01-01 00:00:00"

\* The AADT branch, before the filter.  The timestamp literal is a string
\* that date_trunc casts to a timestamp; the cast is applied here.
aadt_row(t, row, cc) ==
  [counter_id   |-> coalesce3(Cell(t, row, "vejnavn"), Cell(t, row, "t_nr"), "unknown"),
   counter_name |-> coalesce3(Cell(t, row, "beskrivelse"), Cell(t, row, "vejnavn"), "unknown"),
   timestamp    |-> to_timestamp(SyntheticTimestamp),
   count        |-> cast_int(Cell(t, row, cc))]

\* A time-series row whose missing identifier and name are null.
ts_row_null_default(t, row, tsc, cntc, cidc, namec) ==
  [counter_id   |-> IF Truthy(cidc) THEN Cell(t, row, cidc) ELSE NULL,
   counter_name |-> IF Truthy(namec) THEN Cell(t, row, namec) ELSE NULL,
   timestamp    |-> to_timestamp(Cell(t, row, tsc)),
   count        |-> cast_int(Cell(t, row, cntc))]

\* The time-series branch, before the filter.
ts_row(t, row, tsc, cntc, cidc, namec) ==
  [counter_id   |-> IF Truthy(cidc) THEN Cell(t, row, cidc) ELSE "unknown",
   counter_name |-> IF Truthy(namec) THEN Cell(t, row, namec) ELSE "unknown",
   timestamp    |-> to_timestamp(Cell(t, row, tsc)),
   count        |-> cast_int(Cell(t, row, cntc))]

\* A kept row carries its count as a plain integer.
Unwrap(rows) == [i \in DOMAIN rows |-> [rows[i] EXCEPT !.count = @.val]]

\* .where(col("count").isNotNull())
normalize_aadt(t, cc) ==
  Unwrap(SelectSeq([i \in DOMAIN t.rows |-> aadt_row(t, t.rows[i], cc)],
                   LAMBDA r : ~r.count.null))

\* Time-series filters that go wrong: the timestamp is not tested; the
\* counter_id is tested as well.
normalize_ts_count_only(t, tsc, cntc, cidc, namec) ==
  Unwrap(SelectSeq([i \in DOMAIN t.rows |-> ts_row(t, t.rows[i], tsc, cntc, cidc, namec)],
                   LAMBDA r : ~r.count.null))

normalize_ts_with_id(t, tsc, cntc, cidc, namec) ==
  Unwrap(SelectSeq([i \in DOMAIN t.rows |-> ts_row(t, t.rows[i], tsc, cntc, cidc, namec)],
                   LAMBDA r : r.timestamp # NullTs /\ ~r.count.null
                              /\ r.counter_id # NULL))

\* .where(col("timestamp").isNotNull() & col("count").isNotNull())
normalize_ts(t, tsc, cntc, cidc, namec) ==
  Unwrap(SelectSeq([i \in DOMAIN t.rows |-> ts_row(t, t.rows[i], tsc, cntc, cidc, namec)],
                   LAMBDA r : r.timestamp # NullTs /\ ~r.count.null))

-----------------------------------------------------------------------------
(* Daily aggregation: groupBy(day, counter_key).agg(sum(count)).           *)

\* Grouping columns whose day keeps the time of day.
keyed_untruncated(rows) ==
  [i \in DOMAIN rows |->
     [day         |-> rows[i].timestamp,
      counter_key |-> coalesce2(rows[i].counter_id, rows[i].counter_name),
      value       |-> rows[i].count]]

\* Grouping columns whose key prefers the name to the identifier.
keyed_name_first(rows) ==
  [i \in DOMAIN rows |->
     [day         |-> date_trunc(rows[i].timestamp),
      counter_key |-> coalesce2(rows[i].counter_name, rows[i].counter_id),
      value       |-> rows[i].count]]

\* The grouping columns and the summed column of a normalised row.
keyed(rows) ==
  [i \in DOMAIN rows |->
     [day         |-> date_trunc(rows[i].timestamp),
      counter_key |-> coalesce2(rows[i].counter_id, rows[i].counter_name),
      value       |-> rows[i].count]]

SameGroup(g, r) == g.day = r.day /\ g.counter_key = r.counter_key

\* Aggregation steps that go wrong: every row opens a group (an append); the
\* last row of a group replaces its total; the rows of a group are counted.
agg_step_append(acc, r) ==
  Append(acc, [day |-> r.day, counter_key |-> r.counter_key, total |-> r.value])

agg_step_last(acc, r) ==
  IF \E i \in DOMAIN acc : SameGroup(acc[i], r)
  THEN [i \in DOMAIN acc |->
          IF SameGroup(acc[i], r) THEN [acc[i] EXCEPT !.total = r.value]
          ELSE acc[i]]
  ELSE Append(acc, [day |-> r.day, counter_key |-> r.counter_key, total |-> r.value])

agg_step_count(acc, r) ==
  IF \E i \in DOMAIN acc : SameGroup(acc[i], r)
  THEN [i \in DOMAIN acc |->
          IF SameGroup(acc[i], r) THEN [acc[i] EXCEPT !.total = @ + 1]
          ELSE acc[i]]
  ELSE Append(acc, [day |-> r.day, counter_key |-> r.counter_key, total |-> 1])

\* One row enters the aggregation: it joins the group of its key, or opens it.
agg_step(acc, r) ==
  IF \E i \in DOMAIN acc : SameGroup(acc[i], r)
  THEN [i \in DOMAIN acc |->
          IF SameGroup(acc[i], r) THEN [acc[i] EXCEPT !.total = @ + r.value]
          ELSE acc[i]]
  ELSE Append(acc, [day |-> r.day, counter_key |-> r.counter_key, total |-> r.value])

RECURSIVE group_sum(_, _)
group_sum(recs, acc) ==
  IF recs = <<>> THEN acc ELSE group_sum(Tail(recs), agg_step(acc, Head(recs)))

daily_of(rows) == group_sum(keyed(rows), <<>>)

-----------------------------------------------------------------------------
(* The input files of the model: a header and, per column, the cells a row *)
(* may hold there.                                                         *)

Inputs ==
  << [columns |-> <<"date", "bike">>,
      doms    |-> <<{"2024-01-01", "2024-01-02"}, {"10", "15", "7"}>>],
     [columns |-> <<"vejnavn", "aadt_bike">>,
      doms    |-> <<{"Nørrebrogade", NULL}, {"500"}>>],
     [columns |-> <<"notes", "comment">>,
      doms    |-> <<{"n"}, {"c", NULL}>>],
     [columns |-> <<"vejnavn", "t_nr", "beskrivelse", "AADT_Bike">>,
      doms    |-> <<{"Nørrebrogade", NULL}, {"101"}, {"Bro"}, {"500", "120"}>>],
     [columns |-> <<"vejnavn", "t_nr", "beskrivelse", "aadt_total", "aadt_car">>,
      doms    |-> <<{"Nørrebrogade"}, {"101"}, {"Bro"}, {"1400"}, {"900", "n/a"}>>],
     [columns |-> <<"timestamp", "count", "vejnavn", "t_nr", "beskrivelse", "aadt_bike">>,
      doms    |-> <<{"2024-01-02"}, {"3"}, {"Nørrebrogade", "Amagerbrogade"}, {"101"},
                    {"Bro"}, {"500"}>>],
     [columns |-> <<"Counter_ID", "Name", "DateTime", "Count">>,
      doms    |-> <<{"A", NULL}, {"N1"},
                    {"2024-01-01 08:30:00", "2024-01-01 23:59:59", "2024-01-02 17:45:00"},
                    {"10"}>>],
     [columns |-> <<"id", "name", "dato", "antal">>,
      doms    |-> <<{NULL}, {"N1", NULL}, {"2024-01-01"}, {"7", "15"}>>],
     [columns |-> <<"timestamp", "notes">>,
      doms    |-> <<{"2024-01-01"}, {"n"}>>],
     [columns |-> <<"created_at", "time", "value", "counts", "id">>,
      doms    |-> <<{"2024-01-02"}, {"2024-01-01 23:59:59", "n/a"}, {"7"},
                    {"15", "abc", "3.7"}, {"A"}>>],
     [columns |-> <<"total_aadt", "vejnavn", "t_nr", "beskrivelse">>,
      doms    |-> <<{"1400"}, {NULL}, {"101", NULL}, {"Bro", NULL}>>],
     [columns |-> <<"bike">>,
      doms    |-> <<{"10"}>>],
     [columns |-> <<"location", "time", "passes">>,
      doms    |-> <<{"Torvet", "Havnen"},
                    {"2024-01-01 08:30:00", "2024-01-02 17:45:00"}, {"7"}>>] >>

\* The rows over a sequence of cell sets: one cell of each, in order.
RECURSIVE RowsOver(_)
RowsOver(doms) ==
  IF doms = <<>> THEN {<<>>}
  ELSE {<<v>> \o r : v \in Head(doms), r \in RowsOver(Tail(doms))}

SeqsUpTo(S, n) == UNION {[1..k -> S] : k \in 0..n}

Tables ==
  UNION { {[columns |-> Inputs[i].columns, rows |-> rs] :
             rs \in SeqsUpTo(RowsOver(Inputs[i].doms), MaxRows)} :
          i \in DOMAIN Inputs }

NoTable == [columns |-> <<>>, rows |-> <<>>]

\* <out_dir>/daily_counts.parquet before the run: absent, or what an earlier
\* run on another file left there.
NoFile == [exists |-> FALSE, rows |-> <<>>]
EarlierDaily ==
  << [day |-> [date |-> "2023-12-31", time |-> "00:00:00"],
      counter_key |-> "unknown", total |-> 99] >>
PriorFiles == {NoFile, [exists |-> TRUE, rows |-> EarlierDaily]}

-----------------------------------------------------------------------------
(* The DAG: its runs and tasks.                                            *)

DagRuns == 1..MaxDagRuns
Tasks == {"ingest", "transform"}

\* default_args["retries"]
retries == 1

\* strftime with zero-padded fields: a number as two decimal digits.
Digits2(n) == <<(n \div 10) % 10, n % 10>>

\* strftime("%Y%m%d") and strftime("%Y%m%d_%H%M%S") of the clock.  The clock
\* starts on the 9th, so the days of the model cross from one significant
\* digit to two.
DayStamp(t) == Digits2(9 + t \div TicksPerDay)
SecondStamp(t) == DayStamp(t) \o Digits2(t % TicksPerDay)

\* File names, as prefix, stamp and suffix.
RawName(stamp) == [prefix |-> "cph_traffic_raw_", stamp |-> stamp, suffix |-> ".csv"]
ProcessedName(stamp) == [prefix |-> "processed_data_", stamp |-> stamp, suffix |-> ".csv"]

\* No file name: nothing chosen, nothing returned.
NoName == [prefix |-> "", stamp |-> <<>>, suffix |-> ""]

\* Files in the raw directory that no ingest wrote, there from the start.
ForeignFiles ==
  { [prefix |-> "cph_traffic_raw_", stamp |-> <<9, 9>>, suffix |-> ".csv.bak"],
    [prefix |-> "traffic_", stamp |-> <<9, 9>>, suffix |-> ".csv"] }

\* [f for f in os.listdir(RAW_DIR)
\*    if f.startswith("cph_traffic_raw_") and f.endswith(".csv")]
raw_matches(files) ==
  {f \in files : f.prefix = "cph_traffic_raw_" /\ f.suffix = ".csv"}

\* String order on the names that match: they differ in the stamp alone,
\* and are compared character by character.
RECURSIVE SeqLess(_, _)
SeqLess(a, b) ==
  IF b = <<>> THEN FALSE
  ELSE IF a = <<>> THEN TRUE
  ELSE IF Head(a) # Head(b) THEN Head(a) < Head(b)
  ELSE SeqLess(Tail(a), Tail(b))
NameLess(f, g) == SeqLess(f.stamp, g.stamp)

\* sorted(raw_files)[0]
first_of(files) == CHOOSE f \in files : \A g \in files \ {f} : NameLess(f, g)

\* sorted(raw_files)[-1]
latest_of(files) == CHOOSE f \in files : \A g \in files \ {f} : NameLess(g, f)

\* os.path.exists(REALISTIC_DATA), and a check that always passes.
source_assumed(exists) == TRUE
source_found(exists) == exists

\* A trigger rule that lets a task start when its upstream task has ended,
\* however it ended.
upstream_done(s) == s \in {"success", "failed"}

\* ingest >> transform, under the default trigger rule of an operator
\* (all_success): the upstream task has succeeded.
upstream_ok(s) == s = "success"

\* A budget of one retry more than the retries.
after_failure_lenient(n) == IF n <= retries + 1 THEN "up_for_retry" ELSE "failed"

\* The state of a task after an attempt that raised: up for retry while the
\* attempts made do not exceed the retries, failed after that.
after_failure(n) == IF n <= retries THEN "up_for_retry" ELSE "failed"


-----------------------------------------------------------------------------
(* The HTTP ingest: bytes, decoding and the CSV tokenizer.                 *)

\* The bytes of the model: "A", ",", "\n", and 0xC3, 0xA6, 0xE6 ("ae" is
\* C3 A6 in UTF-8 and E6 in Latin-1).
Responses ==
  { <<>>,
    <<65, 10, 65>>,
    <<65, 10, 65, 10, 65, 44, 65>>,
    <<195, 166, 10, 65>>,
    <<230, 10, 65>>,
    <<230, 10, 65, 10, 65, 44, 65>>,
    <<166, 10, 65>>,
    <<65, 44, 195>>,
    <<230, 166, 166>> }

IsCont(b) == b >= 128 /\ b <= 191

\* bytes.decode("utf-8") over the bytes of the model (one-byte, two-byte
\* and E1..EC three-byte sequences): the code points, or <<-1>> where the
\* bytes are not UTF-8 (UnicodeDecodeError).
Malformed == <<0 - 1>>
RECURSIVE decode_utf8(_)
decode_utf8(b) ==
  IF b = <<>> THEN <<>>
  ELSE IF Head(b) < 128 THEN
    LET rest == decode_utf8(Tail(b)) IN
      IF rest = Malformed THEN Malformed ELSE <<Head(b)>> \o rest
  ELSE IF Head(b) >= 194 /\ Head(b) <= 223 THEN
    IF Len(b) >= 2 /\ IsCont(b[2]) THEN
      LET rest == decode_utf8(SubSeq(b, 3, Len(b))) IN
        IF rest = Malformed THEN Malformed
        ELSE <<(Head(b) - 192) * 64 + (b[2] - 128)>> \o rest
    ELSE Malformed
  ELSE IF Head(b) >= 225 /\ Head(b) <= 236 THEN
    IF Len(b) >= 3 /\ IsCont(b[2]) /\ IsCont(b[3]) THEN
      LET rest == decode_utf8(SubSeq(b, 4, Len(b))) IN
        IF rest = Malformed THEN Malformed
        ELSE <<(Head(b) - 224) * 4096 + (b[2] - 128) * 64 + (b[3] - 128)>> \o rest
    ELSE Malformed
  ELSE Malformed

\* bytes.decode("latin-1"): every byte is the code point of its value.
decode_latin1(b) == b

decode(b, enc) == IF enc = "utf-8" THEN decode_utf8(b) ELSE decode_latin1(b)

\* The number of fields of each line of a text.
RECURSIVE field_counts(_, _)
field_counts(t, n) ==
  IF t = <<>> THEN <<n>>
  ELSE IF Head(t) = 10 THEN
    IF Tail(t) = <<>> THEN <<n>> ELSE <<n>> \o field_counts(Tail(t), 1)
  ELSE IF Head(t) = 44 THEN field_counts(Tail(t), n + 1)
  ELSE field_counts(Tail(t), n)

\* The tokenizer's rule: a line after the first data line that has more
\* fields than the line before it is an error.
Ragged(t) ==
  LET w == field_counts(t, 1) IN \E k \in 3..Len(w) : w[k] > w[k - 1]

\* pd.read_csv(io.BytesIO(b), encoding=enc): the exception it raises
\* ("none" if it returns) and the text of the frame.
read_csv(b, enc) ==
  LET t == decode(b, enc) IN
    IF t = Malformed THEN [err |-> "UnicodeDecodeError", text |-> <<>>]
    ELSE IF t = <<>> THEN [err |-> "EmptyDataError", text |-> <<>>]
    ELSE IF Ragged(t) THEN [err |-> "ParserError", text |-> <<>>]
    ELSE [err |-> "none", text |-> t]

\* A handler for every exception of the first read.
is_any_error(e) == e # "none"

\* except UnicodeDecodeError:
is_decode_error(e) == e = "UnicodeDecodeError"

-----------------------------------------------------------------------------
(* The enrichment script: files, frames and the synthetic weather.         *)

\* File names of data/curated, as prefix, stem (character codes) and suffix:
\* real_copenhagen_data_20250901_120000.csv (a download),
\* real_copenhagen_data_with_weather_fixed.csv (the output) and
\* clean_real_copenhagen_data.csv.
DownloadName ==
  [prefix |-> "real_copenhagen_data_",
   stamp  |-> <<50, 48, 50, 53, 48, 57, 48, 49, 95, 49, 50, 48, 48, 48, 48>>,
   suffix |-> ".csv"]
OutputName ==
  [prefix |-> "real_copenhagen_data_",
   stamp  |-> <<119, 105, 116, 104, 95, 119, 101, 97, 116, 104, 101, 114, 95, 102, 105, 120, 101, 100>>,
   suffix |-> ".csv"]
OtherName ==
  [prefix |-> "clean_", stamp |-> <<114, 101, 97, 108, 95, 99, 111, 112, 101, 110, 104, 97, 103, 101, 110, 95, 100, 97, 116, 97>>, suffix |-> ".csv"]

\* A frame: its columns and its rows (each a function on the columns).
NoFrame == [columns |-> {}, rows |-> <<>>]
File(n, fr) == [name |-> n, frame |-> fr]
OtherCurated == File(OtherName, NoFrame)

\* Cells of a date column: the 15th of each month of 2024, and text that is
\* no date.
GoodDates == {[y |-> 2024, m |-> m, d |-> 15] : m \in 1..12}
BadDate == [y |-> 0, m |-> 0, d |-> 0]

\* The rows a downloaded file can have, by its columns.
Shapes ==
  << [date : GoodDates, time : {"07-08"}, n : {5}, road_name : {"R1"}],
     [date : {[y |-> 2024, m |-> 7, d |-> 15], BadDate}, total : {5, 7}],
     [date : {[y |-> 2024, m |-> 1, d |-> 15], BadDate}, road_name : {"R1"}],
     [road_name : {"R1", "R2"}],
     [n : {5}],
     [day : {[y |-> 2024, m |-> 6, d |-> 15]}, counter_key : {"R1"}, total : {5}] >>

ColumnsOf(rows) == DOMAIN (CHOOSE r \in rows : TRUE)

Downloads ==
  UNION { {[columns |-> ColumnsOf(Shapes[i]), rows |-> rs] :
             rs \in UNION {[1..k -> Shapes[i]] : k \in 1..MaxProcRows}} :
          i \in DOMAIN Shapes }

\* [f for f in os.listdir(curated_dir)
\*    if f.startswith("real_copenhagen_data_") and f.endswith(".csv")]
data_files(dir) ==
  {f \in dir : f.name.prefix = "real_copenhagen_data_" /\ f.name.suffix = ".csv"}

\* sorted(data_files)[-1]
latest_data_file(files) ==
  CHOOSE f \in files : \A g \in files \ {f} : SeqLess(g.name.stamp, f.name.stamp)

\* pd.to_datetime on a date cell: raises on text that is no date.
Parses(c) == c.m \in 1..12 /\ c.d \in 1..31

\* x.split('-')[0].zfill(2) + ':00:00' on a time cell: the hour.
HourOf(t) == CASE t = "07-08" -> 7 [] OTHER -> 0

\* A frame with one more column, computed from each row; and
\* df.rename(columns={'n': 'total'}): the column n is called total.
WithColumn(fr, c, vals) ==
  [columns |-> fr.columns \cup {c},
   rows    |-> [i \in DOMAIN fr.rows |->
                  [k \in fr.columns \cup {c} |->
                     IF k = c THEN vals[i] ELSE fr.rows[i][k]]]]
ColumnOf(fr, c) == [i \in DOMAIN fr.rows |-> fr.rows[i][c]]
rename_n(fr) ==
  IF "n" \in fr.columns
  THEN LET g == WithColumn(fr, "total", ColumnOf(fr, "n")) IN
         [columns |-> g.columns \ {"n"},
          rows    |-> [i \in DOMAIN g.rows |->
                         [k \in g.columns \ {"n"} |-> g.rows[i][k]]]]
  ELSE fr

\* The column a frame's day comes from, by lines 39..46 ("" if none), and
\* whether the conversion of that column raises.
day_source(fr) ==
  IF "date" \in fr.columns THEN "date"
  ELSE IF "day" \in fr.columns THEN "day" ELSE ""
day_raises(fr) ==
  day_source(fr) # "" /\ \E i \in DOMAIN fr.rows : ~Parses(fr.rows[i][day_source(fr)])
add_day(fr) ==
  IF day_source(fr) = "" THEN fr
  ELSE LET src == day_source(fr) IN
    IF "date" \in fr.columns /\ "time" \in fr.columns
    THEN WithColumn(WithColumn(fr, "datetime",
                               [i \in DOMAIN fr.rows |->
                                  [date |-> fr.rows[i]["date"],
                                   hour |-> HourOf(fr.rows[i]["time"])]]),
                    "day", ColumnOf(fr, "date"))
    ELSE WithColumn(fr, "day", ColumnOf(fr, src))

\* counter_key: road_name if there is one, else the column as it is, else
\* 'Unknown'.
add_counter_key(fr) ==
  IF "road_name" \in fr.columns
  THEN WithColumn(fr, "counter_key", ColumnOf(fr, "road_name"))
  ELSE IF "counter_key" \notin fr.columns
  THEN WithColumn(fr, "counter_key", [i \in DOMAIN fr.rows |-> "Unknown"])
  ELSE fr

\* A guard that takes the count column for granted.
has_total_assumed(fr) == TRUE

\* if 'total' in df.columns:
has_total(fr) == "total" \in fr.columns

\* df.groupby(['day', 'counter_key'])['total'].sum().reset_index(): one row
\* for each day and key, by day (rows of one day in the order they come).
DayNumber3(d) == d.y * 10000 + d.m * 100 + d.d
RECURSIVE group_total(_, _, _)
group_total(rows, d, k) ==
  IF rows = <<>> THEN 0
  ELSE (IF Head(rows)["day"] = d /\ Head(rows)["counter_key"] = k
        THEN Head(rows)["total"] ELSE 0) + group_total(Tail(rows), d, k)
RECURSIVE ordered_groups(_)
ordered_groups(G) ==
  IF G = {} THEN <<>>
  ELSE LET g == CHOOSE x \in G : \A z \in G : DayNumber3(x[1]) <= DayNumber3(z[1]) IN
         <<g>> \o ordered_groups(G \ {g})
groupby_sum(fr) ==
  LET G == {<<fr.rows[i]["day"], fr.rows[i]["counter_key"]>> : i \in DOMAIN fr.rows}
      gs == ordered_groups(G) IN
    [i \in DOMAIN gs |->
       [day |-> gs[i][1], counter_key |-> gs[i][2],
        total |-> group_total(fr.rows, gs[i][1], gs[i][2])]]

\* dt.strftime('%B') of a month, and dt.strftime('%A') of the 15th of a
\* month of 2024.
month_name(m) ==
  CASE m = 1 -> "January"
    [] m = 2 -> "February"
    [] m = 3 -> "March"
    [] m = 4 -> "April"
    [] m = 5 -> "May"
    [] m = 6 -> "June"
    [] m = 7 -> "July"
    [] m = 8 -> "August"
    [] m = 9 -> "September"
    [] m = 10 -> "October"
    [] m = 11 -> "November"
    [] m = 12 -> "December"
weekday(d) ==
  CASE d.m = 1 -> "Monday"
    [] d.m = 2 -> "Thursday"
    [] d.m = 3 -> "Friday"
    [] d.m = 4 -> "Monday"
    [] d.m = 5 -> "Wednesday"
    [] d.m = 6 -> "Saturday"
    [] d.m = 7 -> "Monday"
    [] d.m = 8 -> "Thursday"
    [] d.m = 9 -> "Sunday"
    [] d.m = 10 -> "Tuesday"
    [] d.m = 11 -> "Friday"
    [] d.m = 12 -> "Sunday"

\* final_columns
final_columns ==
  {"day", "counter_key", "total", "year", "month", "month_name", "weekday",
   "season", "temperature", "weather_condition", "precipitation", "wind_speed"}

\* get_season(month)
get_season(month) ==
  IF 3 <= month /\ month <= 5 THEN "spring"
  ELSE IF 6 <= month /\ month <= 8 THEN "summer"
  ELSE IF 9 <= month /\ month <= 11 THEN "autumn"
  ELSE "winter"

\* np.random.uniform(lo, hi): a value of the interval; the model draws its
\* two ends.
Uniform(lo, hi) == {lo, hi}

\* A condition on the month that wraps around the year's end.
wet_month_wrapped(m) == 9 <= m \/ m <= 2

\* 9 <= m <= 2
wet_month(m) == 9 <= m /\ m <= 2

temperature_of(m) == IF 4 <= m /\ m <= 9 THEN Uniform(5, 20) ELSE Uniform(0, 10)
precipitation_of(m) == IF wet_month(m) THEN Uniform(0, 5) ELSE Uniform(0, 2)
wind_speed_of(m) == IF 3 <= m /\ m <= 8 THEN Uniform(3, 10) ELSE Uniform(5, 15)

\* get_weather_condition(temp, precip, wind)
get_weather_condition(temp, precip, wind) ==
  IF precip > 5 THEN "rainy"
  ELSE IF temp < 5 THEN "cold"
  ELSE IF temp > 20 /\ wind < 10 THEN "sunny"
  ELSE "cloudy"

\* The enriched rows a daily row can become.
Enriched(r) ==
  { [day |-> r.day, counter_key |-> r.counter_key, total |-> r.total,
     year |-> r.day.y, month |-> r.day.m, month_name |-> month_name(r.day.m),
     weekday |-> weekday(r.day), season |-> get_season(r.day.m),
     temperature |-> t, precipitation |-> p, wind_speed |-> w,
     weather_condition |-> get_weather_condition(t, p, w)] :
       t \in temperature_of(r.day.m), p \in precipitation_of(r.day.m),
       w \in wind_speed_of(r.day.m) }

-----------------------------------------------------------------------------
(* The dashboard: candidate files, columns and views.                      *)

REAL_DATASET_WITH_WEATHER_FIXED == "/data/curated/real_copenhagen_data_with_weather_fixed.csv"
REAL_DATASET_WITH_WEATHER == "/data/curated/real_copenhagen_data_with_weather.csv"
REAL_DATASET == "/data/curated/clean_real_copenhagen_data.csv"
SYNTHETIC_DATASET == "/data/curated/real_daily_counts.csv"

DatasetPaths ==
  <<REAL_DATASET_WITH_WEATHER_FIXED, REAL_DATASET_WITH_WEATHER, REAL_DATASET,
    SYNTHETIC_DATASET>>
PathSet == {DatasetPaths[i] : i \in DOMAIN DatasetPaths}

\* The columns every dataset has, and the columns of the enrichment.
MandatoryColumns == {"day", "counter_key", "total"}
OptionalColumns ==
  {"year", "month", "month_name", "season", "weather_condition", "temperature",
   "precipitation", "wind_speed"}

\* A selection that prefers the synthetic fixture.
select_dataset_synthetic_first(ex) ==
  IF SYNTHETIC_DATASET \in ex THEN SYNTHETIC_DATASET
  ELSE IF REAL_DATASET_WITH_WEATHER_FIXED \in ex THEN REAL_DATASET_WITH_WEATHER_FIXED
  ELSE IF REAL_DATASET_WITH_WEATHER \in ex THEN REAL_DATASET_WITH_WEATHER
  ELSE REAL_DATASET

\* if ... .exists(): DATASET = ... elif ... else: DATASET = SYNTHETIC_DATASET
select_dataset(ex) ==
  IF REAL_DATASET_WITH_WEATHER_FIXED \in ex THEN REAL_DATASET_WITH_WEATHER_FIXED
  ELSE IF REAL_DATASET_WITH_WEATHER \in ex THEN REAL_DATASET_WITH_WEATHER
  ELSE IF REAL_DATASET \in ex THEN REAL_DATASET
  ELSE SYNTHETIC_DATASET

\* The views of the render in their order; for each the columns its guard
\* asks for, and the columns it reads from a frame with the columns c.
Views ==
  <<"overview", "year_season", "monthly", "seasonal", "weather", "locations",
    "weather_impact", "insights">>
guard_of(v) ==
  CASE v = "year_season"    -> {"year", "season"}
    [] v = "monthly"        -> {"month", "year"}
    [] v = "seasonal"       -> {"season"}
    [] v = "weather"        -> {"weather_condition"}
    [] v = "weather_impact" -> {"temperature"}
    [] OTHER                -> {}
reads_of(v, c) ==
  CASE v = "year_season"    -> {"year", "season", "month", "day", "total"}
    [] v = "monthly"        -> {"year", "month", "month_name", "day", "total", "counter_key"}
    [] v = "seasonal"       -> {"season", "day", "total", "month_name", "year", "month"}
    [] v = "weather"        ->
         {"weather_condition", "day", "total"}
           \cup (IF "temperature" \in c THEN {"temperature", "precipitation"} ELSE {})
    [] v = "weather_impact" -> {"temperature", "weather_condition", "precipitation", "total"}
    [] OTHER                -> {"day", "counter_key", "total"}

-----------------------------------------------------------------------------
(* The run.                                                                *)

Init ==
  /\ pc = "start"
  /\ df = NoTable
  /\ ts = None /\ cnt = None /\ cid = None /\ name = None
  /\ aadt_bike = None /\ aadt_car = None /\ aadt_total = None
  /\ branch = "none"
  /\ count_col = None
  /\ note = None
  /\ norm = <<>>
  /\ daily = <<>>
  /\ parquet \in PriorFiles
  /\ err = "none"
  /\ runs = 1
  /\ dag_state = [r \in DagRuns |-> [t \in Tasks |-> "none"]]
  /\ dag_tries = [r \in DagRuns |-> [t \in Tasks |-> 0]]
  /\ source_exists = FALSE
  /\ raw_files = ForeignFiles
  /\ processed = {}
  /\ now = 0
  /\ latest_file = [r \in DagRuns |-> NoName]
  /\ xcom = [r \in DagRuns |-> [t \in Tasks |-> NoName]]
  /\ in_pc = "import"
  /\ SOURCE_URL = ""
  /\ content = <<>>
  /\ tried = <<>>
  /\ in_df = <<>>
  /\ in_err = "none"
  /\ pr_pc = "idle"
  /\ curated_dir = {OtherCurated}
  /\ pr_df = NoFrame
  /\ daily_df = <<>>
  /\ pr_ret = "none"
  /\ dash_pc = "idle"
  /\ data_exists = {}
  /\ data_columns = {}
  /\ DATASET = ""
  /\ reads = {}
  /\ df_columns = {}
  /\ views = {}
  /\ dash_err = "none"

\* A write in append mode: the rows of the run follow those of the file.
write_append(old, rows) == [exists |-> TRUE, rows |-> old.rows \o rows]

\* write.mode("overwrite").parquet(path): the file holds the rows written.
write_overwrite(old, rows) == [exists |-> TRUE, rows |-> rows]

\* df = spark.read.option("header", True).csv(src)
ReadCsv ==
  /\ pc = "start"
  /\ df' \in Tables
  /\ pc' = "loaded"
  /\ UNCHANGED <<ts, cnt, cid, name, aadt_bike, aadt_car, aadt_total,
                 branch, count_col, note, norm, daily, parquet, err, others>>

\* cols and the seven picks.
Detect ==
  /\ pc = "loaded"
  /\ LET cols == lower_cols(df) IN
       /\ ts' = pick(TsOpts, cols)
       /\ cnt' = pick(CntOpts, cols)
       /\ cid' = pick(CidOpts, cols)
       /\ name' = pick(NameOpts, cols)
       /\ aadt_bike' = pick(AadtBikeOpts, cols)
       /\ aadt_car' = pick(AadtCarOpts, cols)
       /\ aadt_total' = pick(AadtTotalOpts, cols)
  /\ pc' = "detected"
  /\ UNCHANGED <<df, branch, count_col, note, norm, daily, parquet, err, others>>

\* The AADT branch: the count column, then the normalising select.
AadtBranch ==
  /\ pc = "detected"
  /\ is_aadt(aadt_bike, aadt_car, aadt_total)
  /\ branch' = "aadt"
  /\ LET cc == select_count_col(df, aadt_bike, aadt_car, aadt_total) IN
       /\ count_col' = cc
       /\ note' = fallback_note(df, aadt_bike, aadt_car, aadt_total)
       /\ IF cc = None
          THEN pc' = "failed" /\ err' = "RuntimeError" /\ norm' = norm
          ELSE IF ~aadt_select_resolves(df)
          THEN pc' = "failed" /\ err' = "AnalysisException" /\ norm' = norm
          ELSE pc' = "normalized" /\ err' = err /\ norm' = normalize_aadt(df, cc)
  /\ UNCHANGED <<df, ts, cnt, cid, name, aadt_bike, aadt_car, aadt_total,
                 daily, parquet, others>>

\* The time-series branch: the guard, then the normalising select.
TimeSeriesBranch ==
  /\ pc = "detected"
  /\ ~is_aadt(aadt_bike, aadt_car, aadt_total)
  /\ branch' = "timeseries"
  /\ IF ~schema_ok(ts, cnt)
     THEN pc' = "failed" /\ err' = "RuntimeError" /\ norm' = norm
     ELSE pc' = "normalized" /\ err' = err
          /\ norm' = normalize_ts(df, ts, cnt, cid, name)
  /\ UNCHANGED <<df, ts, cnt, cid, name, aadt_bike, aadt_car, aadt_total,
                 count_col, note, daily, parquet, others>>

\* daily = norm.withColumn("day", ...).groupBy(...).agg(sum("count"))
Aggregate ==
  /\ pc = "normalized"
  /\ daily' = daily_of(norm)
  /\ pc' = "aggregated"
  /\ UNCHANGED <<df, ts, cnt, cid, name, aadt_bike, aadt_car, aadt_total,
                 branch, count_col, note, norm, parquet, err, others>>

\* daily.repartition(1).write.mode("overwrite").parquet(...)
WriteParquet ==
  /\ pc = "aggregated"
  /\ parquet' = write_overwrite(parquet, daily)
  /\ pc' = "done"
  /\ UNCHANGED <<df, ts, cnt, cid, name, aadt_bike, aadt_car, aadt_total,
                 branch, count_col, note, norm, daily, err, others>>

Next ==
  \/ ReadCsv
  \/ Detect
  \/ AadtBranch
  \/ TimeSeriesBranch
  \/ Aggregate
  \/ WriteParquet

Spec == Init /\ [][Next]_vars

-----------------------------------------------------------------------------
(* Runs of the job one after the other on the same output directory: each  *)
(* run is a new process that reads some input file; the parquet file is    *)
(* what the runs share.                                                    *)

RunInputs ==
  << [columns |-> <<"date", "bike">>,
      doms    |-> <<{"2024-01-01", "2024-01-02"}, {"10"}>>],
     [columns |-> <<"vejnavn", "t_nr", "beskrivelse", "aadt_bike">>,
      doms    |-> <<{"Nørrebrogade"}, {"101"}, {"Bro"}, {"500"}>>],
     [columns |-> <<"notes", "comment">>,
      doms    |-> <<{"n"}, {"c"}>>] >>

RunTables ==
  UNION { {[columns |-> RunInputs[i].columns, rows |-> rs] :
             rs \in SeqsUpTo(RowsOver(RunInputs[i].doms), MaxRows)} :
          i \in DOMAIN RunInputs }

\* df = spark.read.option("header", True).csv(src), in a sequence of runs.
ReadCsvOfRun ==
  /\ pc = "start"
  /\ df' \in RunTables
  /\ pc' = "loaded"
  /\ UNCHANGED <<ts, cnt, cid, name, aadt_bike, aadt_car, aadt_total,
                 branch, count_col, note, norm, daily, parquet, err, others>>

\* spark-submit transform_counts.py <src> <out_dir> once more: a new process
\* after the last one has ended; of the last run only the file is left.
StartRun ==
  /\ pc \in {"done", "failed"}
  /\ runs < MaxRuns
  /\ runs' = runs + 1
  /\ pc' = "start"
  /\ df' = NoTable
  /\ ts' = None /\ cnt' = None /\ cid' = None /\ name' = None
  /\ aadt_bike' = None /\ aadt_car' = None /\ aadt_total' = None
  /\ branch' = "none"
  /\ count_col' = None
  /\ note' = None
  /\ norm' = <<>>
  /\ daily' = <<>>
  /\ err' = "none"
  /\ UNCHANGED <<parquet, dagvars, httpvars, procvars, dashvars>>

NextRuns ==
  \/ ReadCsvOfRun
  \/ Detect
  \/ AadtBranch
  \/ TimeSeriesBranch
  \/ Aggregate
  \/ WriteParquet
  \/ StartRun

SpecRuns == Init /\ [][NextRuns]_vars

-----------------------------------------------------------------------------
(* The steps of the DAG.  A task attempt starts (the task is running) and  *)
(* ends with the return or the exception of its python callable.           *)

jobvars == <<pc, df, ts, cnt, cid, name, aadt_bike, aadt_car, aadt_total,
             branch, count_col, note, norm, daily, parquet, err, runs>>

\* What a step of the DAG leaves alone.
beside_dag == <<jobvars, httpvars, procvars, dashvars>>

SetTask(r, t, st) == [dag_state EXCEPT ![r][t] = st]

\* An attempt of a task that waits for its first attempt or for its retry
\* starts, and ingest_data() runs to its read: it raises unless the curated
\* source exists, else loads it.  ingest has no upstream task.
StartIngest(r) ==
  /\ dag_state[r]["ingest"] \in {"none", "up_for_retry"}
  /\ dag_tries' = [dag_tries EXCEPT ![r]["ingest"] = @ + 1]
  /\ dag_state' =
       SetTask(r, "ingest",
               IF ~source_found(source_exists)
               THEN after_failure(dag_tries[r]["ingest"] + 1)
               ELSE "running")
  /\ UNCHANGED <<source_exists, raw_files, processed, now,
                 latest_file, xcom, beside_dag>>

\* ingest_data(), from the stamp on: writes cph_traffic_raw_<day>.csv and
\* returns its path.
IngestWrite(r) ==
  /\ dag_state[r]["ingest"] = "running"
  /\ raw_files' = raw_files \cup {RawName(DayStamp(now))}
  /\ xcom' = [xcom EXCEPT ![r]["ingest"] = RawName(DayStamp(now))]
  /\ dag_state' = SetTask(r, "ingest", "success")
  /\ UNCHANGED <<dag_tries, source_exists, processed, now, latest_file, beside_dag>>

\* ingest >> transform: an attempt of transform starts once ingest has
\* succeeded, and transform_data() runs to its read: it raises unless a raw
\* file matches, else reads the last of the sorted matches.
StartTransform(r) ==
  /\ upstream_ok(dag_state[r]["ingest"])
  /\ dag_state[r]["transform"] \in {"none", "up_for_retry"}
  /\ dag_tries' = [dag_tries EXCEPT ![r]["transform"] = @ + 1]
  /\ IF raw_matches(raw_files) = {}
     THEN /\ dag_state' = SetTask(r, "transform",
                                  after_failure(dag_tries[r]["transform"] + 1))
          /\ latest_file' = latest_file
     ELSE /\ dag_state' = SetTask(r, "transform", "running")
          /\ latest_file' = [latest_file EXCEPT ![r] = latest_of(raw_matches(raw_files))]
  /\ UNCHANGED <<source_exists, raw_files, processed, now, xcom, beside_dag>>

\* A task whose upstream task has failed is never started.
SkipTransform(r) ==
  /\ dag_state[r]["ingest"] = "failed"
  /\ dag_state[r]["transform"] = "none"
  /\ dag_state' = SetTask(r, "transform", "upstream_failed")
  /\ UNCHANGED <<dag_tries, source_exists, raw_files, processed, now,
                 latest_file, xcom, beside_dag>>

\* transform_data(), from the stamp on: writes processed_data_<second>.csv
\* and returns its path.
TransformWrite(r) ==
  /\ dag_state[r]["transform"] = "running"
  /\ processed' = processed \cup {ProcessedName(SecondStamp(now))}
  /\ xcom' = [xcom EXCEPT ![r]["transform"] = ProcessedName(SecondStamp(now))]
  /\ dag_state' = SetTask(r, "transform", "success")
  /\ latest_file' = [latest_file EXCEPT ![r] = NoName]
  /\ UNCHANGED <<dag_tries, source_exists, raw_files, now, beside_dag>>

\* The curated source file appears (scripts/process_real_data.py writes it).
PublishSource ==
  /\ ~source_exists
  /\ source_exists' = TRUE
  /\ UNCHANGED <<dag_state, dag_tries, raw_files, processed, now,
                 latest_file, xcom, beside_dag>>

\* The raw files are cleared away from outside; what is not a raw file stays.
PurgeRaw ==
  /\ raw_matches(raw_files) # {}
  /\ raw_files' = raw_files \ raw_matches(raw_files)
  /\ UNCHANGED <<dag_state, dag_tries, source_exists, processed, now,
                 latest_file, xcom, beside_dag>>

\* datetime.now(timezone.utc) moves on.
Tick ==
  /\ now < MaxClock
  /\ now' = now + 1
  /\ UNCHANGED <<dag_state, dag_tries, source_exists, raw_files, processed,
                 latest_file, xcom, beside_dag>>

\* What the scheduler and the workers do for one DAG run.
RunStep(r) ==
  \/ StartIngest(r)
  \/ IngestWrite(r)
  \/ StartTransform(r)
  \/ SkipTransform(r)
  \/ TransformWrite(r)

NextDag ==
  \/ \E r \in DagRuns : StartIngest(r)
  \/ \E r \in DagRuns : IngestWrite(r)
  \/ \E r \in DagRuns : StartTransform(r)
  \/ \E r \in DagRuns : SkipTransform(r)
  \/ \E r \in DagRuns : TransformWrite(r)
  \/ PublishSource
  \/ PurgeRaw
  \/ Tick

SpecDag == Init /\ [][NextDag]_vars

-----------------------------------------------------------------------------
(* The steps of the HTTP ingest, run().                                    *)

beside_http == <<jobvars, dag_state, dag_tries, source_exists, processed,
                 latest_file, xcom, procvars, dashvars>>

\* SOURCE_URL = os.getenv("SOURCE_URL", "")
Import ==
  /\ in_pc = "import"
  /\ SOURCE_URL' \in {"", "https://example.org/cph.csv"}
  /\ in_pc' = "start"
  /\ UNCHANGED <<content, tried, in_df, in_err, raw_files, now, beside_http>>

\* if not SOURCE_URL: raise;  r = requests.get(...);  r.raise_for_status()
Fetch ==
  /\ in_pc = "start"
  /\ \/ /\ SOURCE_URL = ""
        /\ in_pc' = "failed" /\ in_err' = "RuntimeError"
        /\ content' = content
     \/ /\ SOURCE_URL # ""
        /\ in_pc' = "failed" /\ in_err' = "HTTPError"
        /\ content' = content
     \/ /\ SOURCE_URL # ""
        /\ in_pc' = "fetched" /\ in_err' = in_err
        /\ content' \in Responses
  /\ UNCHANGED <<SOURCE_URL, tried, in_df, raw_files, now, beside_http>>

\* try: df = pd.read_csv(..., encoding='utf-8')
ReadUtf8 ==
  /\ in_pc = "fetched"
  /\ tried' = Append(tried, "utf-8")
  /\ LET r == read_csv(content, "utf-8") IN
       IF r.err = "none"
       THEN in_pc' = "loaded" /\ in_df' = r.text /\ in_err' = in_err
       ELSE IF is_decode_error(r.err)
       THEN in_pc' = "fallback" /\ in_df' = in_df /\ in_err' = in_err
       ELSE in_pc' = "failed" /\ in_df' = in_df /\ in_err' = r.err
  /\ UNCHANGED <<SOURCE_URL, content, raw_files, now, beside_http>>

\* except UnicodeDecodeError: try: df = pd.read_csv(..., encoding='latin-1')
\* except Exception: raise
ReadLatin1 ==
  /\ in_pc = "fallback"
  /\ tried' = Append(tried, "latin-1")
  /\ LET r == read_csv(content, "latin-1") IN
       IF r.err = "none"
       THEN in_pc' = "loaded" /\ in_df' = r.text /\ in_err' = in_err
       ELSE in_pc' = "failed" /\ in_df' = in_df /\ in_err' = r.err
  /\ UNCHANGED <<SOURCE_URL, content, raw_files, now, beside_http>>

\* ts = ...strftime("%Y%m%d");  df.to_csv(out_path, index=False)
WriteRaw ==
  /\ in_pc = "loaded"
  /\ raw_files' = raw_files \cup {RawName(DayStamp(now))}
  /\ in_pc' = "done"
  /\ UNCHANGED <<SOURCE_URL, content, tried, in_df, in_err, now, beside_http>>

\* datetime.now(timezone.utc) moves on while run() is under way.
TickHttp ==
  /\ in_pc \notin {"import", "done", "failed"}
  /\ now < MaxClock
  /\ now' = now + 1
  /\ UNCHANGED <<httpvars, raw_files, beside_http>>

NextHttp ==
  \/ Import
  \/ Fetch
  \/ ReadUtf8
  \/ ReadLatin1
  \/ WriteRaw
  \/ TickHttp

SpecHttp == Init /\ [][NextHttp]_vars

-----------------------------------------------------------------------------
(* The steps of the enrichment script, process_real_copenhagen_data().     *)

beside_proc == <<jobvars, dagvars, httpvars, dashvars>>

\* download_kaggle_data.py has saved a file of the dataset.
Download ==
  /\ pr_pc = "idle"
  /\ data_files(curated_dir) = {}
  /\ \E fr \in Downloads : curated_dir' = curated_dir \cup {File(DownloadName, fr)}
  /\ UNCHANGED <<pr_pc, pr_df, daily_df, pr_ret, beside_proc>>

\* Lines 19..33: no input, return False; else read the latest.
FindInput ==
  /\ pr_pc = "idle"
  /\ IF data_files(curated_dir) = {}
     THEN pr_pc' = "returned" /\ pr_ret' = "False" /\ pr_df' = pr_df
     ELSE /\ pr_pc' = "read" /\ pr_ret' = pr_ret
          /\ pr_df' = latest_data_file(data_files(curated_dir)).frame
  /\ UNCHANGED <<curated_dir, daily_df, beside_proc>>

\* Lines 35..52: rename n, derive day (to_datetime may raise), counter_key.
Reshape ==
  /\ pr_pc = "read"
  /\ LET fr == rename_n(pr_df) IN
       IF day_raises(fr)
       THEN pr_pc' = "raised" /\ pr_ret' = "ValueError" /\ pr_df' = fr
       ELSE /\ pr_pc' = "shaped" /\ pr_ret' = pr_ret
            /\ pr_df' = add_counter_key(add_day(fr))
  /\ UNCHANGED <<curated_dir, daily_df, beside_proc>>

\* Lines 54..59: no total, return False; else group (a frame without a day
\* column makes groupby raise KeyError).
AggregateDaily ==
  /\ pr_pc = "shaped"
  /\ IF ~has_total(pr_df)
     THEN pr_pc' = "returned" /\ pr_ret' = "False" /\ daily_df' = daily_df
     ELSE IF ~({"day", "total"} \subseteq pr_df.columns)
     THEN pr_pc' = "raised" /\ pr_ret' = "KeyError" /\ daily_df' = daily_df
     ELSE pr_pc' = "grouped" /\ pr_ret' = pr_ret /\ daily_df' = groupby_sum(pr_df)
  /\ UNCHANGED <<curated_dir, pr_df, beside_proc>>

\* Lines 61..99: date parts, season, synthetic weather, weather condition.
Enrich ==
  /\ pr_pc = "grouped"
  /\ daily_df' \in {e \in [DOMAIN daily_df -> UNION {Enriched(daily_df[i]) : i \in DOMAIN daily_df}] :
                       \A i \in DOMAIN daily_df : e[i] \in Enriched(daily_df[i])}
  /\ pr_pc' = "enriched"
  /\ UNCHANGED <<curated_dir, pr_df, pr_ret, beside_proc>>

\* Lines 101..116: write the output and return True.
WriteOutput ==
  /\ pr_pc = "enriched"
  /\ curated_dir' =
       {f \in curated_dir : f.name # OutputName}
         \cup {File(OutputName, [columns |-> final_columns, rows |-> daily_df])}
  /\ pr_pc' = "returned"
  /\ pr_ret' = "True"
  /\ UNCHANGED <<pr_df, daily_df, beside_proc>>

NextProc ==
  \/ Download
  \/ FindInput
  \/ Reshape
  \/ AggregateDaily
  \/ Enrich
  \/ WriteOutput

SpecProc == Init /\ [][NextProc]_vars

-----------------------------------------------------------------------------
(* The steps of a render of the dashboard.                                 *)

beside_dash == <<jobvars, dagvars, httpvars, procvars>>

\* The pipeline has left some of the candidate files, with their columns.
Publish ==
  /\ dash_pc = "idle"
  /\ data_exists = {}
  /\ data_exists' \in SUBSET PathSet \ {{}}
  /\ \E opt \in SUBSET OptionalColumns : data_columns' = MandatoryColumns \cup opt
  /\ UNCHANGED <<dash_pc, DATASET, reads, df_columns, views, dash_err, beside_dash>>

\* Lines 27..56: the choice of DATASET and its banner.
SelectDataset ==
  /\ dash_pc = "idle"
  /\ DATASET' = select_dataset(data_exists)
  /\ dash_pc' = "selected"
  /\ UNCHANGED <<data_exists, data_columns, reads, df_columns, views, dash_err,
                 beside_dash>>

\* Lines 60..70: no file, a notice and nothing else; else the read.
LoadDataset ==
  /\ dash_pc = "selected"
  /\ IF DATASET \notin data_exists
     THEN dash_pc' = "done" /\ reads' = reads /\ df_columns' = df_columns
     ELSE /\ dash_pc' = Views[1]
          /\ reads' = reads \cup {DATASET}
          /\ df_columns' = data_columns
  /\ UNCHANGED <<data_exists, data_columns, DATASET, views, dash_err, beside_dash>>

\* A view: hidden unless the frame has the columns of its guard; a column
\* it reads that the frame lacks is a KeyError, the end of the render.
RenderView(i) ==
  /\ dash_pc = Views[i]
  /\ IF ~(guard_of(Views[i]) \subseteq df_columns)
     THEN /\ views' = views /\ dash_err' = dash_err
          /\ dash_pc' = IF i < Len(Views) THEN Views[i + 1] ELSE "done"
     ELSE IF ~(reads_of(Views[i], df_columns) \subseteq df_columns)
     THEN views' = views /\ dash_err' = "KeyError" /\ dash_pc' = "crashed"
     ELSE /\ views' = views \cup {Views[i]} /\ dash_err' = dash_err
          /\ dash_pc' = IF i < Len(Views) THEN Views[i + 1] ELSE "done"
  /\ UNCHANGED <<data_exists, data_columns, DATASET, reads, df_columns, beside_dash>>

NextDash ==
  \/ Publish
  \/ SelectDataset
  \/ LoadDataset
  \/ \E i \in DOMAIN Views : RenderView(i)

SpecDash == Init /\ [][NextDash]_vars

\* The scheduler and the workers keep going: while a step of some run stays
\* possible, a step of some run is taken.  The clock and the files that
\* appear from outside are under no such obligation.
FairSpecDag == SpecDag /\ WF_vars(\E r \in DagRuns : RunStep(r))

-----------------------------------------------------------------------------
(* Properties.                                                             *)

RowSet(rows) == {rows[i] : i \in DOMAIN rows}
Day(d) == [date |-> d, time |-> "00:00:00"]
Agg(d, k, n) == [day |-> Day(d), counter_key |-> k, total |-> n]

Aggregated == pc \in {"aggregated", "done"}

C1_Input ==
  [columns |-> <<"date", "bike">>,
   rows    |-> << <<"2024-01-01", "10">>, <<"2024-01-01", "15">>,
                  <<"2024-01-02", "7">> >>]
C1_Output == {Agg("2024-01-01", "unknown", 25), Agg("2024-01-02", "unknown", 7)}

\* C1: the table with the columns date,bike and the rows (2024-01-01,10),
\* (2024-01-01,15), (2024-01-02,7) never fails, is aggregated to exactly the
\* two rows (2024-01-01, "unknown", 25) and (2024-01-02, "unknown", 7), and
\* these two rows are what the finished run has written.
C1_DateBikeScenario ==
  df = C1_Input =>
    /\ pc # "failed"
    /\ Aggregated => Len(daily) = 2 /\ RowSet(daily) = C1_Output
    /\ pc = "done" => parquet = [exists |-> TRUE, rows |-> daily]
C1_Witness == df = C1_Input /\ pc = "done"

C2_Input ==
  [columns |-> <<"vejnavn", "aadt_bike">>,
   rows    |-> << <<"Nørrebrogade", "500">> >>]

\* C2: the table with the columns vejnavn,aadt_bike and the single row
\* (Nørrebrogade, 500) never fails, and the finished run has written exactly
\* the row (2024-01-01, "Nørrebrogade", 500).
C2_SnapshotScenario ==
  df = C2_Input =>
    /\ pc # "failed"
    /\ pc = "done" =>
         /\ parquet.exists
         /\ Len(parquet.rows) = 1
         /\ RowSet(parquet.rows) = {Agg("2024-01-01", "Nørrebrogade", 500)}

Candidates(opts) == {opts[i] : i \in DOMAIN opts}
HasCandidate(t, opts) ==
  \E i \in DOMAIN t.columns : Lower(t.columns[i]) \in Candidates(opts)
NoSchema(t) ==
  /\ ~HasCandidate(t, TsOpts)
  /\ ~HasCandidate(t, CntOpts)
  /\ ~HasCandidate(t, AadtBikeOpts)
  /\ ~HasCandidate(t, AadtCarOpts)
  /\ ~HasCandidate(t, AadtTotalOpts)

\* C3: a table none of whose columns is a timestamp, count or AADT candidate
\* ends in the fatal schema error (the RuntimeError of the time-series
\* guard), and no step of its run creates or changes daily_counts.parquet.
C3_NoSchemaIsFatal ==
  /\ [](NoSchema(df) /\ pc \notin {"start", "loaded", "detected"}
          => pc = "failed" /\ err = "RuntimeError")
  /\ [][NoSchema(df) /\ pc # "start" => parquet' = parquet]_vars
C3_Witness ==
  /\ df.columns = <<"notes", "comment">>
  /\ Len(df.rows) > 0
  /\ pc = "failed"
  /\ parquet = [exists |-> TRUE, rows |-> EarlierDaily]

UniqueKeys(rows) ==
  \A i, j \in DOMAIN rows : SameGroup(rows[i], rows[j]) => i = j

\* C4: no two rows of the aggregated table, nor of the written file, have
\* the same (day, counter_key).
C4_UniqueDayKey ==
  /\ Aggregated => UniqueKeys(daily)
  /\ pc = "done" => UniqueKeys(parquet.rows)
C4_Witness == pc = "done" /\ Len(daily) >= 2 /\ Len(norm) > Len(daily)

RECURSIVE SumCount(_, _)
SumCount(rows, I) ==
  IF I = {} THEN 0
  ELSE LET i == CHOOSE x \in I : TRUE IN rows[i].count + SumCount(rows, I \ {i})
CounterKey(r) == IF r.counter_id # NULL THEN r.counter_id ELSE r.counter_name
BelongsTo(r, g) ==
  /\ g.day = Day(r.timestamp.date)
  /\ g.counter_key = CounterKey(r)

\* C5: the total of every aggregated row is the sum of count over exactly
\* the normalised rows of its day and counter key, and every normalised row
\* belongs to exactly one aggregated row.
C5_TotalIsGroupSum ==
  Aggregated =>
    /\ \A i \in DOMAIN daily :
         daily[i].total =
           SumCount(norm, {j \in DOMAIN norm : BelongsTo(norm[j], daily[i])})
    /\ \A j \in DOMAIN norm :
         Cardinality({i \in DOMAIN daily : BelongsTo(norm[j], daily[i])}) = 1
C5_Witness ==
  /\ Aggregated
  /\ \E i, j \in DOMAIN norm :
       /\ i # j
       /\ norm[i].timestamp.date = norm[j].timestamp.date
       /\ norm[i].timestamp.time # norm[j].timestamp.time
       /\ CounterKey(norm[i]) = CounterKey(norm[j])
  /\ \E i \in DOMAIN norm : norm[i].counter_id = NULL

RECURSIVE PermsOf(_)
PermsOf(S) ==
  IF S = {} THEN {<<>>}
  ELSE UNION { {<<x>> \o p : p \in PermsOf(S \ {x})} : x \in S }
Perms(n) == PermsOf(1..n)
Permuted(s, p) == [i \in DOMAIN s |-> s[p[i]]]
NormOf(t) ==
  IF branch = "aadt" THEN normalize_aadt(t, count_col)
  ELSE normalize_ts(t, ts, cnt, cid, name)

\* C6: the aggregated rows do not depend on the order of the input rows:
\* the run on any permutation of the rows of the input gives the same set
\* of (day, counter_key, total) rows, and as many of them.
C6_OrderIndependent ==
  Aggregated =>
    \A p \in Perms(Len(df.rows)) :
      LET d == daily_of(NormOf([df EXCEPT !.rows = Permuted(df.rows, p)])) IN
        RowSet(d) = RowSet(daily) /\ Len(d) = Len(daily)
C6_Witness ==
  /\ Aggregated
  /\ Len(daily) >= 2
  /\ \E i, j \in DOMAIN norm :
       /\ i # j
       /\ SameGroup(keyed(norm)[i], keyed(norm)[j])
       /\ norm[i].count # norm[j].count

regroup(rows) ==
  group_sum([i \in DOMAIN rows |->
               [day |-> rows[i].day, counter_key |-> rows[i].counter_key,
                value |-> rows[i].total]], <<>>)

\* C7: grouping the aggregated table again by (day, counter_key) and summing
\* total gives the same table: the same rows, and as many of them.
C7_RegroupIdempotent ==
  Aggregated =>
    /\ RowSet(regroup(daily)) = RowSet(daily)
    /\ Len(regroup(daily)) = Len(daily)
C7_Witness ==
  /\ Aggregated
  /\ Len(norm) = 3
  /\ Len(daily) = 2
  /\ \E i \in DOMAIN daily : daily[i].counter_key = NULL

LowerSet(t) == {Lower(t.columns[i]) : i \in DOMAIN t.columns}
FirstMatch(opts, S) ==
  IF \A i \in DOMAIN opts : opts[i] \notin S THEN None
  ELSE opts[CHOOSE i \in DOMAIN opts :
              opts[i] \in S /\ \A j \in 1..(i - 1) : opts[j] \notin S]
Picked ==
  { <<TsOpts, ts>>, <<CntOpts, cnt>>, <<CidOpts, cid>>, <<NameOpts, name>>,
    <<AadtBikeOpts, aadt_bike>>, <<AadtCarOpts, aadt_car>>,
    <<AadtTotalOpts, aadt_total>> }

\* C8: every pick is the first name of its priority list that is in the set
\* of lower-cased column names, it is None exactly when no name of the list
\* is in that set, and pick gives the same on every reordering of the columns.
C8_PickFirstInPriority ==
  /\ pc \notin {"start", "loaded"} =>
       \A f \in Picked :
         /\ f[2] = FirstMatch(f[1], LowerSet(df))
         /\ f[2] = None <=> Candidates(f[1]) \cap LowerSet(df) = {}
  /\ pc = "detected" =>
       \A p \in Perms(Len(df.columns)) :
         LET cols == lower_cols([df EXCEPT !.columns = Permuted(df.columns, p)]) IN
           \A f \in Picked : pick(f[1], cols) = f[2]
C8_Witness ==
  /\ pc = "detected"
  /\ df.columns[1] = "created_at"
  /\ ts = "time"
  /\ cnt = "counts"
  /\ name = None

AnyAadtMatched == aadt_bike # None \/ aadt_car # None \/ aadt_total # None

\* C9: a run that has passed the branch selection has taken exactly one
\* branch: the AADT branch if and only if one of the three AADT picks
\* matched, the time-series branch if and only if none did.
C9_BranchByAadt ==
  pc \notin {"start", "loaded", "detected"} =>
    /\ branch \in {"aadt", "timeseries"}
    /\ branch = "aadt" <=> AnyAadtMatched
    /\ branch = "timeseries" <=> ~AnyAadtMatched
    /\ AnyAadtMatched <=>
         \/ HasCandidate(df, AadtBikeOpts)
         \/ HasCandidate(df, AadtCarOpts)
         \/ HasCandidate(df, AadtTotalOpts)
C9_Witness ==
  /\ pc = "done"
  /\ branch = "aadt"
  /\ ts # None
  /\ cnt # None
  /\ Len(parquet.rows) > 0

\* C10: in the AADT branch the count column is the bike column whenever it
\* matched, the car column only when bike did not match, the total column
\* only when neither bike nor car matched, and anything else (the numeric
\* fallback, or no column at all) only when none of the three matched.
C10_CountSourcePriority ==
  branch = "aadt" =>
    /\ aadt_bike # None => count_col = aadt_bike
    /\ aadt_bike = None /\ aadt_car # None => count_col = aadt_car
    /\ aadt_bike = None /\ aadt_car = None /\ aadt_total # None
         => count_col = aadt_total
    /\ count_col \notin {aadt_bike, aadt_car, aadt_total} \ {None}
         => aadt_bike = None /\ aadt_car = None /\ aadt_total = None
C10_Witness ==
  /\ branch = "aadt"
  /\ aadt_bike = None
  /\ aadt_car # None
  /\ aadt_total # None
  /\ count_col = aadt_car
  /\ pc = "done"

PastBranch == pc \notin {"start", "loaded", "detected"}
Normalized == pc \in {"normalized", "aggregated", "done"}
HasAadtColumn(t) ==
  \/ HasCandidate(t, AadtBikeOpts)
  \/ HasCandidate(t, AadtCarOpts)
  \/ HasCandidate(t, AadtTotalOpts)

\* C11: a run on an input with no AADT column takes the first numeric
\* column as its count column and notes the name of that column.
C11_NumericFallback ==
  PastBranch /\ ~HasAadtColumn(df) =>
    /\ numeric_cols(df) # <<>>
    /\ count_col = Head(numeric_cols(df))
    /\ note = count_col

\* The input rows the AADT branch keeps if it keeps the rows whose count
\* cell is not null, and the rows it keeps in fact (the count casts to int).
NonNullCount(t, cc) == {i \in DOMAIN t.rows : Cell(t, t.rows[i], cc) # NULL}
KeptAadt(t, cc) ==
  SelectSeq(t.rows, LAMBDA row : ~cast_int(Cell(t, row, cc)).null)

\* C12: a run on an input with an AADT column does not fail, keeps exactly
\* the rows whose selected AADT cell is not null, and every kept row and
\* every aggregated row is of the day 2024-01-01.
C12_SnapshotKeepsNonNull ==
  PastBranch /\ HasAadtColumn(df) =>
    /\ pc # "failed"
    /\ Normalized =>
         /\ Len(norm) = Cardinality(NonNullCount(df, count_col))
         /\ \A k \in DOMAIN norm : date_trunc(norm[k].timestamp) = Day("2024-01-01")
    /\ Aggregated => \A i \in DOMAIN daily : daily[i].day = Day("2024-01-01")

\* The value of a column of a row where the column exists and the cell is
\* not null (NULL otherwise), and the first available of a list of fields.
Available(t, row, c) ==
  IF \E i \in DOMAIN t.columns : Lower(t.columns[i]) = c
  THEN row[CHOOSE i \in DOMAIN t.columns : Lower(t.columns[i]) = c]
  ELSE NULL
RECURSIVE FirstAvailable(_, _, _)
FirstAvailable(t, row, fields) ==
  IF fields = <<>> THEN "unknown"
  ELSE IF Available(t, row, Head(fields)) # NULL THEN Available(t, row, Head(fields))
  ELSE FirstAvailable(t, row, Tail(fields))

\* C13: the AADT branch never fails on a missing column, and every row it
\* keeps has counter_id = vejnavn, else t_nr, else "unknown" and
\* counter_name = beskrivelse, else vejnavn, else "unknown", where a field
\* whose column is absent or whose cell is null is skipped.
C13_SnapshotIdFallback ==
  branch = "aadt" /\ count_col # None =>
    /\ err # "AnalysisException"
    /\ Normalized =>
         \A k \in DOMAIN norm :
           LET row == KeptAadt(df, count_col)[k] IN
             /\ norm[k].counter_id = FirstAvailable(df, row, <<"vejnavn", "t_nr">>)
             /\ norm[k].counter_name =
                  FirstAvailable(df, row, <<"beskrivelse", "vejnavn">>)

TsSchemaMissing(t) ==
  /\ ~HasAadtColumn(t)
  /\ ~HasCandidate(t, TsOpts) \/ ~HasCandidate(t, CntOpts)

\* C14: a run on an input with no AADT column that lacks a timestamp
\* candidate or a count candidate ends in the RuntimeError of the guard with
\* nothing normalised and nothing aggregated, and no step of it creates or
\* changes daily_counts.parquet.
C14_MissingTsOrCountIsFatal ==
  /\ [](PastBranch /\ TsSchemaMissing(df)
          => /\ pc = "failed" /\ err = "RuntimeError"
             /\ norm = <<>> /\ daily = <<>>)
  /\ [][pc # "start" /\ TsSchemaMissing(df) => parquet' = parquet]_vars
C14_Witness ==
  /\ pc = "failed"
  /\ ts # None
  /\ cnt = None
  /\ Len(df.rows) > 0
  /\ parquet.exists

\* What decides, from the header alone, that a run fails.
HasColumn(t, c) == \E i \in DOMAIN t.columns : Lower(t.columns[i]) = c
HeaderRejected(t) ==
  IF HasAadtColumn(t)
  THEN ~(HasColumn(t, "vejnavn") /\ HasColumn(t, "t_nr") /\ HasColumn(t, "beskrivelse"))
  ELSE TsSchemaMissing(t)
\* The rows whose timestamp parses (time-series branch) and count casts.
GoodTs(t, row) == branch = "aadt" \/ to_timestamp(Cell(t, row, ts)) # NullTs
CountCell(t, row) == Cell(t, row, IF branch = "aadt" THEN count_col ELSE cnt)
GoodRow(t, row) == GoodTs(t, row) /\ ~cast_int(CountCell(t, row)).null
GoodRows(t) == SelectSeq(t.rows, LAMBDA row : GoodRow(t, row))
RECURSIVE SumTotal(_)
SumTotal(rows) == IF rows = <<>> THEN 0 ELSE Head(rows).total + SumTotal(Tail(rows))

\* C15: whether a run fails is decided by the header, never by a row; the
\* normalised rows are exactly the input rows whose timestamp parses and
\* whose count casts, in order, each with its count; and all their counts
\* are in the totals.
C15_BadRowsAreDropped ==
  PastBranch =>
    /\ pc = "failed" <=> HeaderRejected(df)
    /\ Normalized =>
         /\ Len(norm) = Len(GoodRows(df))
         /\ \A k \in DOMAIN norm :
              /\ norm[k].count = cast_int(CountCell(df, GoodRows(df)[k])).val
              /\ branch = "timeseries" =>
                   norm[k].timestamp = to_timestamp(Cell(df, GoodRows(df)[k], ts))
    /\ Aggregated => SumTotal(daily) = SumCount(norm, DOMAIN norm)
C15_Witness ==
  /\ Aggregated
  /\ branch = "timeseries"
  /\ Len(norm) > 0
  /\ \E i \in DOMAIN df.rows : to_timestamp(Cell(df, df.rows[i], ts)) = NullTs
  /\ \E i \in DOMAIN df.rows :
       /\ to_timestamp(Cell(df, df.rows[i], ts)) # NullTs
       /\ cast_int(Cell(df, df.rows[i], cnt)).null

HasGoodTsRow(t) ==
  \E i \in DOMAIN t.rows :
    /\ to_timestamp(Cell(t, t.rows[i], ts)) # NullTs
    /\ ~cast_int(Cell(t, t.rows[i], cnt)).null

\* C16 as claimed: a run on an input with a timestamp candidate and a count
\* candidate, one row of which has a timestamp that parses and a count that
\* casts, takes the time-series branch, does not fail and normalises to at
\* least one row.
C16_TsColumnsGiveTsBranch ==
  PastBranch /\ HasCandidate(df, TsOpts) /\ HasCandidate(df, CntOpts)
    /\ HasGoodTsRow(df) =>
      /\ branch = "timeseries"
      /\ pc # "failed"
      /\ Normalized => norm # <<>>

\* C16 (amended): the same, for inputs that have no AADT candidate column.
C16_TsColumnsWithoutAadt ==
  PastBranch /\ HasCandidate(df, TsOpts) /\ HasCandidate(df, CntOpts)
    /\ ~HasAadtColumn(df) /\ HasGoodTsRow(df) =>
      /\ branch = "timeseries"
      /\ pc # "failed"
      /\ Normalized => norm # <<>>
C16_Witness ==
  /\ pc = "done"
  /\ branch = "timeseries"
  /\ HasGoodTsRow(df)
  /\ Len(norm) = 1
  /\ Len(df.rows) = 3
  /\ ~HasAadtColumn(df)

\* C17: in the time-series branch every normalised row has as counter_id
\* the cell of the matched identifier column of its input row, or "unknown"
\* when the input has no identifier candidate, and as counter_name the cell
\* of the matched name column, or "unknown" when there is no name candidate.
C17_TsIdAndNameVerbatim ==
  branch = "timeseries" /\ Normalized =>
    \A k \in DOMAIN norm :
      LET row == GoodRows(df)[k] IN
        /\ norm[k].counter_id =
             IF HasCandidate(df, CidOpts) THEN Available(df, row, cid) ELSE "unknown"
        /\ norm[k].counter_name =
             IF HasCandidate(df, NameOpts) THEN Available(df, row, name) ELSE "unknown"
C17_Witness ==
  /\ branch = "timeseries"
  /\ Normalized
  /\ cid # None
  /\ name = None
  /\ \E k \in DOMAIN norm :
       norm[k].counter_id = "A" /\ norm[k].counter_name = "unknown"

KeyPairs(rows) == {<<rows[i].day, rows[i].counter_key>> : i \in DOMAIN rows}

\* C18: the (day, counter_key) pairs of the aggregated table are those of
\* the normalised rows with counter_key = counter_id where counter_id is not
\* null and counter_key = counter_name where it is.
C18_KeyPrefersId ==
  Aggregated =>
    KeyPairs(daily) =
      { <<Day(norm[k].timestamp.date),
          IF norm[k].counter_id # NULL THEN norm[k].counter_id
          ELSE norm[k].counter_name>> : k \in DOMAIN norm }
C18_Witness ==
  /\ Aggregated
  /\ \E i, j \in DOMAIN norm :
       /\ norm[i].counter_id = NULL
       /\ norm[i].counter_name # NULL
       /\ norm[j].counter_id # NULL
       /\ norm[j].counter_id # norm[j].counter_name
  /\ \E i \in DOMAIN daily : daily[i].counter_key = "N1"

\* C19: in any sequence of runs, the file of a finished run holds exactly
\* the aggregate of the input of that run; only the write of a run changes
\* the file (a failed run and the start of a run leave it as the last
\* successful run wrote it); and the write of a run on a file that holds the
\* aggregate of the same input already leaves its contents as they are.
C19_OverwriteKeepsLatestOnly ==
  /\ [](pc = "done" =>
          parquet = [exists |-> TRUE, rows |-> daily_of(NormOf(df))])
  /\ [][parquet' # parquet => pc = "aggregated" /\ pc' = "done"]_vars
  /\ [][pc = "aggregated" /\ pc' = "done"
          /\ parquet = [exists |-> TRUE, rows |-> daily_of(NormOf(df))]
          => parquet' = parquet]_vars
C19_Witness ==
  /\ runs = 2
  /\ pc = "done"
  /\ Len(daily) = 2
  /\ parquet.rows = daily

\* C20: in every DAG run, an attempt of transform has been started only if
\* ingest of that run has succeeded, and where ingest has failed transform
\* has no attempt and is not running.
C20_TransformAfterIngest ==
  \A r \in DagRuns :
    /\ dag_tries[r]["transform"] > 0 => dag_state[r]["ingest"] = "success"
    /\ dag_state[r]["ingest"] = "failed" =>
         /\ dag_tries[r]["transform"] = 0
         /\ dag_state[r]["transform"] \in {"none", "upstream_failed"}
C20_Witness ==
  \E r, q \in DagRuns :
    /\ dag_state[r]["ingest"] = "failed"
    /\ dag_tries[r]["ingest"] = 2
    /\ dag_state[r]["transform"] = "upstream_failed"
    /\ dag_state[q]["ingest"] = "success"
    /\ dag_state[q]["transform"] = "success"

DaysOf(rows) == {rows[i].day : i \in DOMAIN rows}
OnDay(rows, d) == {k \in DOMAIN rows : Day(rows[k].timestamp.date) = d}

\* C28: in the time-series branch with no identifier column matched, every
\* normalised row has counter_id "unknown", every aggregated row has
\* counter_key "unknown" whether or not a name column was matched, there is
\* one aggregated row per day, and its total is the sum of the counts of all
\* the normalised rows of the day, whatever their names.
C28_UnknownIdMergesCounters ==
  Aggregated /\ branch = "timeseries" /\ cid = None =>
    /\ \A k \in DOMAIN norm : norm[k].counter_id = "unknown"
    /\ \A i \in DOMAIN daily : daily[i].counter_key = "unknown"
    /\ Cardinality(DaysOf(daily)) = Len(daily)
    /\ \A i \in DOMAIN daily :
         daily[i].total = SumCount(norm, OnDay(norm, daily[i].day))
C28_Witness ==
  /\ Aggregated
  /\ branch = "timeseries"
  /\ cid = None
  /\ name = "location"
  /\ \E j, k \in DOMAIN norm :
       /\ norm[j].counter_name = "Torvet"
       /\ norm[k].counter_name = "Havnen"
       /\ norm[j].timestamp = norm[k].timestamp
  /\ Len(daily) = 1
  /\ daily[1].total = 14

Attempts(r) == dag_tries[r]["ingest"] + dag_tries[r]["transform"]
Terminal(st) == st \in {"success", "failed", "upstream_failed"}
Ended(r) == \A t \in Tasks : Terminal(dag_state[r][t])

\* C21: a task has at most two attempts, waits for a retry only after its
\* first attempt and is failed only after its second; a failed task stays
\* failed and gets no further attempt; a run has at most four attempts; and
\* every run ends, with both its tasks in a final state for good.
C21_TwoAttemptsThenEnd ==
  /\ [](\A r \in DagRuns :
          /\ Attempts(r) <= 4
          /\ \A t \in Tasks :
               /\ dag_tries[r][t] <= 2
               /\ dag_state[r][t] = "up_for_retry" => dag_tries[r][t] = 1
               /\ dag_state[r][t] = "failed" => dag_tries[r][t] = 2)
  /\ [][\A r \in DagRuns : \A t \in Tasks :
          dag_state[r][t] = "failed" =>
            dag_state'[r][t] = "failed" /\ dag_tries'[r][t] = 2]_vars
  /\ <>[](\A r \in DagRuns : Ended(r))
C21_Witness ==
  \E r, q \in DagRuns :
    /\ Attempts(r) = 4
    /\ dag_state[r]["ingest"] = "success"
    /\ dag_state[r]["transform"] = "failed"
    /\ dag_state[q]["ingest"] = "failed"
    /\ dag_state[q]["transform"] = "upstream_failed"

InFlight(r) == dag_tries[r]["ingest"] > 0 /\ ~Ended(r)

\* C22: two DAG runs that are in flight together have not written the same
\* path: where both have returned the path of an output of the same task,
\* the two paths differ.
C22_ConcurrentRunsWriteDistinctPaths ==
  \A r, q \in DagRuns :
    r # q /\ InFlight(r) /\ InFlight(q) =>
      \A t \in Tasks :
        xcom[r][t] # NoName /\ xcom[q][t] # NoName => xcom[r][t] # xcom[q][t]

IsRawCsv(f) == f.prefix = "cph_traffic_raw_" /\ f.suffix = ".csv"
AttemptOf(r, t) == dag_tries'[r][t] = dag_tries[r][t] + 1
FilesUnchanged == raw_files' = raw_files /\ processed' = processed /\ xcom' = xcom

\* C23: an attempt of ingest that starts while the curated source is missing,
\* and an attempt of transform that starts while the raw directory holds no
\* cph_traffic_raw_*.csv, ends at once with the task up for retry or failed,
\* and leaves the raw files, the processed files and the returned paths as
\* they were.
C23_MissingInputIsFatal ==
  [][\A r \in DagRuns :
       /\ AttemptOf(r, "ingest") /\ ~source_exists =>
            /\ dag_state'[r]["ingest"] \in {"up_for_retry", "failed"}
            /\ FilesUnchanged
       /\ AttemptOf(r, "transform") /\ ~(\E f \in raw_files : IsRawCsv(f)) =>
            /\ dag_state'[r]["transform"] \in {"up_for_retry", "failed"}
            /\ FilesUnchanged]_vars
C23_Witness ==
  \E r, q \in DagRuns :
    /\ dag_state[r]["ingest"] = "failed"
    /\ xcom[r]["ingest"] = NoName
    /\ dag_state[q]["transform"] = "failed"
    /\ xcom[q]["transform"] = NoName
    /\ processed = {}
    /\ raw_files = ForeignFiles

DayNumber(f) == 10 * f.stamp[1] + f.stamp[2]

\* C27: the file an attempt of transform reads is a cph_traffic_raw_*.csv of
\* the raw directory whose day is the latest of the days of all the
\* cph_traffic_raw_*.csv there; no other file is read.
C27_ReadsLatestRawFile ==
  [][\A r \in DagRuns :
       latest_file'[r] # latest_file[r] /\ latest_file'[r] # NoName =>
         /\ latest_file'[r] \in raw_files
         /\ IsRawCsv(latest_file'[r])
         /\ \A g \in raw_files :
              IsRawCsv(g) => DayNumber(g) <= DayNumber(latest_file'[r])]_vars
C27_Witness ==
  \E r \in DagRuns :
    /\ latest_file[r] = RawName(<<1, 0>>)
    /\ RawName(<<0, 9>>) \in raw_files
    /\ ForeignFiles \subseteq raw_files

FirstRead == read_csv(content, "utf-8")
SecondRead == read_csv(content, "latin-1")

\* C24: run() reads the bytes as UTF-8 first; it reads them as Latin-1 if and
\* only if the UTF-8 read raised UnicodeDecodeError, and reads them no third
\* time; a run whose Latin-1 read raises too has failed with that exception;
\* and a failed run has written no raw file, while a finished one has.
C24_OneFallbackEncoding ==
  /\ Len(tried) <= 2
  /\ Len(tried) >= 1 => tried[1] = "utf-8"
  /\ Len(tried) = 2 => tried[2] = "latin-1" /\ FirstRead.err = "UnicodeDecodeError"
  /\ in_pc \in {"loaded", "done", "failed"} /\ tried # <<>> =>
       /\ Len(tried) = 2 <=> FirstRead.err = "UnicodeDecodeError"
       /\ in_pc = "failed" <=>
            \/ FirstRead.err \notin {"none", "UnicodeDecodeError"}
            \/ FirstRead.err = "UnicodeDecodeError" /\ SecondRead.err # "none"
       /\ in_pc = "failed" /\ Len(tried) = 2 => in_err = SecondRead.err
  /\ in_pc = "failed" => raw_files = ForeignFiles
  /\ in_pc = "done" => raw_files # ForeignFiles
C24_Witness ==
  /\ in_pc = "failed"
  /\ tried = <<"utf-8", "latin-1">>
  /\ in_err = "ParserError"
  /\ content = <<230, 10, 65, 10, 65, 44, 65>>

Finished == pr_pc \in {"returned", "raised"}
HasInput == \E f \in curated_dir : f.name = DownloadName
InputFrame == (CHOOSE f \in curated_dir : f.name = DownloadName).frame
NoCountColumn == HasInput /\ InputFrame.columns \cap {"n", "total"} = {}
OutputWritten == \E f \in curated_dir : f.name = OutputName

OutputRows == UNION { {f.frame.rows[i] : i \in DOMAIN f.frame.rows} :
                      f \in {g \in curated_dir : g.name = OutputName} }
WeatherOk(r) ==
  /\ r.precipitation >= 0 /\ r.precipitation <= 2
  /\ r.temperature <= 20
  /\ r.weather_condition \in {"cold", "cloudy"}

\* C30: no month of 1..12 satisfies the precipitation condition; every
\* enriched row, and every row of the output file, has a precipitation
\* within 0..2, a temperature of at most 20 and a weather_condition that is
\* 'cold' or 'cloudy'.
C30_OnlyColdOrCloudy ==
  /\ \A m \in 1..12 : ~wet_month(m)
  /\ pr_pc = "enriched" \/ pr_ret = "True" =>
       \A i \in DOMAIN daily_df : WeatherOk(daily_df[i])
  /\ \A r \in OutputRows : WeatherOk(r)
C30_Witness ==
  /\ pr_ret = "True"
  /\ \E r \in OutputRows :
       /\ r.month = 10
       /\ r.precipitation = 2
       /\ r.temperature = 10
       /\ r.weather_condition = "cloudy"
  /\ \E i \in DOMAIN daily_df : daily_df[i].month_name = "October"

Selected == dash_pc # "idle"
Rank(path) == CHOOSE i \in DOMAIN DatasetPaths : DatasetPaths[i] = path

\* C25: the chosen dataset is a candidate that exists whenever one of the
\* candidates exists, no candidate before it in the order of preference
\* exists, and a render reads no file but the chosen one.
C25_FirstExistingDataset ==
  /\ Selected =>
       /\ DATASET \in PathSet
       /\ data_exists # {} => DATASET \in data_exists
       /\ \A i \in DOMAIN DatasetPaths :
            i < Rank(DATASET) => DatasetPaths[i] \notin data_exists
  /\ reads \subseteq {DATASET}
  /\ dash_pc \in {"done", "crashed"} /\ data_exists # {} => reads = {DATASET}
C25_Witness ==
  /\ dash_pc = "done"
  /\ DATASET = REAL_DATASET
  /\ data_exists = {REAL_DATASET, SYNTHETIC_DATASET}
  /\ reads = {REAL_DATASET}
  /\ views = {Views[i] : i \in DOMAIN Views}

\* C26: a render of a dataset with the mandatory columns and any of the
\* optional ones does not end in an error; it ends with exactly those views
\* rendered whose guard columns the dataset has.
C26_MissingColumnsHideViews ==
  /\ dash_pc # "crashed"
  /\ dash_pc = "done" /\ reads # {} =>
       views = {Views[i] : i \in {j \in DOMAIN Views : guard_of(Views[j]) \subseteq df_columns}}

====
